---- MODULE Spec2Model ----
(***************************************************************************)
(* Model of the feasibility core of DTTOPRAK/business-feasibility:         *)
(*   app/core/calculator.py     FeasibilityCalculator                      *)
(*   app/core/risk_analyzer.py  RiskAnalyzer                               *)
(*                                                                         *)
(* Numbers.  The code computes with decimal.Decimal (28 significant        *)
(* digits, results of round(x, n) by ROUND_HALF_EVEN) and converts to      *)
(* float on the way out.  A Decimal is modelled by the exact rational it   *)
(* denotes, [n |-> numerator, d |-> denominator] in lowest terms with      *)
(* d > 0.  Values the code has rounded to 2 places, and the Numeric(10,2)  *)
(* columns of a product, are kept as an integer number of hundredths       *)
(* (1600.00 is 160000, 50.0 % is 5000).  The amounts of the request body   *)
(* (CalculationCreate: investment, fixed costs, emergency fund) are any    *)
(* Decimal > 0 and are kept in thousandths (1000.125 is 1000125).          *)
(* Within the input values used here every                                 *)
(* quotient either terminates or lies further from a rounding boundary     *)
(* than the 28-digit context can move it, and every float holds a value    *)
(* of at most 15 significant digits exactly as far as comparisons and      *)
(* 1-place rounding of non-ties are concerned.                             *)
(***************************************************************************)
EXTENDS Integers, Sequences, FiniteSets, TLC

VARIABLES
    initial_investment,   \* FeasibilityCalculator.initial_investment (thousandths)
    monthly_fixed_costs,  \* FeasibilityCalculator.monthly_fixed_costs (thousandths)
    emergency_fund,       \* RiskAnalyzer.emergency_fund (thousandths)
    products,             \* FeasibilityCalculator.products
    results,              \* the dict calculate_all returned / analyze reads
    raised,               \* name of the exception calculate_all raised, "" if none
    pc,                   \* position of the caller: calculator, analyzer rule, done
    risk_score,           \* analyze(): local risk_score
    warnings,             \* analyze(): local warnings
    level,                \* analyze(): local level
    emergency_months,     \* analyze(): local emergency_months, as the exact quotient
    idx,                  \* analyze(): position of the loop over daily_targets
    risk_analysis,        \* the dict analyze() returned
    previous,             \* what the call before the current one gave back
    calls,                \* number of calls of calculate_all / analyze so far
    db,                   \* the rows of the database
    templates,            \* templates.BUSINESS_TEMPLATES
    request,              \* the calculate request being served
    response              \* the last response sent

vars == <<initial_investment, monthly_fixed_costs, emergency_fund, products,
          results, raised, pc, risk_score, warnings, level, emergency_months,
          idx, risk_analysis, previous, calls, db, templates, request, response>>

-----------------------------------------------------------------------------
(* Bounds of the model *)

MaxProducts == 3

-----------------------------------------------------------------------------
(* Exact arithmetic *)

Abs(x) == IF x < 0 THEN -x ELSE x

RECURSIVE Gcd(_, _)
Gcd(a, b) == IF b = 0 THEN a ELSE Gcd(b, a % b)

\* The rational n/d in lowest terms, d > 0.
Q(n, d) ==
    LET s == IF d < 0 THEN -1 ELSE 1
        g == Gcd(Abs(n), Abs(d))
    IN [n |-> (s * n) \div g, d |-> (s * d) \div g]

QInt(i) == [n |-> i, d |-> 1]

\* A Decimal held as hundredths, as the rational it denotes.
Dec(h) == Q(h, 100)

\* A Decimal of the request body held as thousandths, as the rational it denotes.
Amount(t) == Q(t, 1000)

\* Over the least common denominator, so that the numerators stay small.
QAdd(x, y) ==
    LET g == Gcd(x.d, y.d)
    IN Q(x.n * (y.d \div g) + y.n * (x.d \div g), (x.d \div g) * y.d)

QSub(x, y) == QAdd(x, [n |-> -y.n, d |-> y.d])

\* Cross-cancelled so that intermediate products stay small.
QMul(x, y) ==
    LET a == Q(x.n, y.d)
        b == Q(y.n, x.d)
    IN [n |-> a.n * b.n, d |-> a.d * b.d]

\* Decimal.__truediv__ for a non-zero divisor.
QDiv(x, y) == QMul(x, Q(y.d, y.n))

QLess(x, y) == x.n * y.d < y.n * x.d

\* int(x) as rounding to the nearest integer.
Trunc_Nearest(x) == (2 * x.n + x.d) \div (2 * x.d)

\* int(x): truncation toward zero.
Trunc(x) == IF x.n >= 0 THEN x.n \div x.d ELSE -((-x.n) \div x.d)

\* Nearest integer to x, ties to the even neighbour (decimal.ROUND_HALF_EVEN).
RoundHalfEven(x) ==
    LET f == x.n \div x.d                 \* floor, since d > 0
        r == x.n - f * x.d                \* 0 <= r < d
    IN IF 2 * r < x.d THEN f
       ELSE IF 2 * r > x.d THEN f + 1
       ELSE IF f % 2 = 0 THEN f ELSE f + 1

\* Nearest integer to k * x, ties to even; the whole part of x is scaled apart
\* from its fraction so that the numerator stays within the integers.
RoundScaled(x, k) ==
    LET f == x.n \div x.d
        r == x.n - f * x.d
    IN k * f + RoundHalfEven([n |-> k * r, d |-> x.d])

\* round(x, 2) of a Decimal: the result in hundredths.
Round2(x) == RoundScaled(x, 100)

\* round(x, 2) where round(x, 1) is called.
Round1_TwoPlaces(x) == RoundScaled(x, 100)

\* round(x, 1) of a Decimal: the result in hundredths (a multiple of 10).
Round1(x) == 10 * RoundScaled(x, 10)

-----------------------------------------------------------------------------
(* FeasibilityCalculator (app/core/calculator.py) *)

\* A row of the products table: Numeric(10,2) prices in hundredths, integer
\* volume and working days.
Product(name, cost, price, volume, days) ==
    [name |-> name, cost_per_unit |-> cost, selling_price |-> price,
     daily_volume |-> volume, working_days_per_month |-> days]

\* calculate_monthly_revenue with the working days left out of the product.
RECURSIVE calculate_monthly_revenue_Daily(_)
calculate_monthly_revenue_Daily(ps) ==
    IF ps = <<>> THEN QInt(0)
    ELSE LET product == Head(ps)
             daily_revenue == QMul(Dec(product.selling_price), QInt(product.daily_volume))
         IN QAdd(daily_revenue, calculate_monthly_revenue_Daily(Tail(ps)))

RECURSIVE calculate_monthly_revenue(_)
calculate_monthly_revenue(ps) ==
    IF ps = <<>> THEN QInt(0)
    ELSE LET product == Head(ps)
             daily_revenue == QMul(Dec(product.selling_price), QInt(product.daily_volume))
             monthly_revenue == QMul(daily_revenue, QInt(product.working_days_per_month))
         IN QAdd(monthly_revenue, calculate_monthly_revenue(Tail(ps)))

RECURSIVE calculate_monthly_variable_costs(_)
calculate_monthly_variable_costs(ps) ==
    IF ps = <<>> THEN QInt(0)
    ELSE LET product == Head(ps)
             daily_cost == QMul(Dec(product.cost_per_unit), QInt(product.daily_volume))
             monthly_cost == QMul(daily_cost, QInt(product.working_days_per_month))
         IN QAdd(monthly_cost, calculate_monthly_variable_costs(Tail(ps)))

\* calculate_gross_margin as a markup: the gross profit over the variable
\* cost instead of over the revenue.
calculate_gross_margin_Markup(ps) ==
    LET revenue == calculate_monthly_revenue(ps)
        variable_costs == calculate_monthly_variable_costs(ps)
    IN IF revenue.n = 0 THEN 0
       ELSE LET gross_profit == QSub(revenue, variable_costs)
                margin == QMul(QDiv(gross_profit, variable_costs), QInt(100))
            IN Round2(margin)

\* Result in hundredths of a percent.
calculate_gross_margin(ps) ==
    LET revenue == calculate_monthly_revenue(ps)
        variable_costs == calculate_monthly_variable_costs(ps)
    IN IF revenue.n = 0 THEN 0
       ELSE LET gross_profit == QSub(revenue, variable_costs)
                margin == QMul(QDiv(gross_profit, revenue), QInt(100))
            IN Round2(margin)

\* calculate_net_profit with the fixed costs left out of the subtraction.
calculate_net_profit_NoFixed(fixed, ps) ==
    LET revenue == calculate_monthly_revenue(ps)
        variable_costs == calculate_monthly_variable_costs(ps)
    IN Round2(QSub(revenue, variable_costs))

\* calculate_net_profit with the variable costs left out of the subtraction.
calculate_net_profit_NoVariable(fixed, ps) ==
    LET revenue == calculate_monthly_revenue(ps)
    IN Round2(QSub(revenue, Amount(fixed)))

\* Result in hundredths.
calculate_net_profit(fixed, ps) ==
    LET revenue == calculate_monthly_revenue(ps)
        variable_costs == calculate_monthly_variable_costs(ps)
        net_profit == QSub(QSub(revenue, variable_costs), Amount(fixed))
    IN Round2(net_profit)

\* The exception calculate_breakeven raises, "" when it returns: line 81
\* divides fixed_costs by a contribution margin ratio that is zero when
\* revenue equals variable cost (decimal traps DivisionByZero, and
\* InvalidOperation for 0/0).
calculate_breakeven_raises(fixed, ps) ==
    LET revenue == calculate_monthly_revenue(ps)
        variable_costs == calculate_monthly_variable_costs(ps)
    IN IF revenue.n = 0 THEN ""
       ELSE IF QDiv(QSub(revenue, variable_costs), revenue).n # 0 THEN ""
       ELSE IF fixed = 0 THEN "InvalidOperation"
       ELSE "DivisionByZero"

\* calculate_breakeven with the required increase computed from the
\* break-even revenue after its rounding to 2 places.
calculate_breakeven_FromRounded(investment, fixed, ps) ==
    LET revenue == calculate_monthly_revenue(ps)
        variable_costs == calculate_monthly_variable_costs(ps)
        fixed_costs == Amount(fixed)
    IN IF revenue.n = 0
       THEN [breakeven_revenue |-> 0,
             breakeven_months |-> 999,
             required_increase |-> 100 * 100]
       ELSE LET contribution_margin_ratio == QDiv(QSub(revenue, variable_costs), revenue)
                breakeven_revenue == QDiv(fixed_costs, contribution_margin_ratio)
                required_increase ==
                    QMul(QDiv(QSub(Dec(Round2(breakeven_revenue)), revenue), revenue),
                         QInt(100))
                monthly_net_profit == QSub(QSub(revenue, variable_costs), fixed_costs)
                breakeven_months ==
                    IF monthly_net_profit.n > 0
                    THEN Trunc(QDiv(Amount(investment), monthly_net_profit))
                    ELSE 999
            IN [breakeven_revenue |-> Round2(breakeven_revenue),
                breakeven_months |-> breakeven_months,
                required_increase |-> Round2(required_increase),
                monthly_net_at_breakeven |-> 0,
                current_revenue |-> Round2(revenue),
                revenue_gap |-> Round2(QSub(breakeven_revenue, revenue))]

\* The dict calculate_breakeven returns when it does not raise.
calculate_breakeven(investment, fixed, ps) ==
    LET revenue == calculate_monthly_revenue(ps)
        variable_costs == calculate_monthly_variable_costs(ps)
        fixed_costs == Amount(fixed)
    IN IF revenue.n = 0
       THEN [breakeven_revenue |-> 0,
             breakeven_months |-> 999,
             required_increase |-> 100 * 100]
       ELSE LET contribution_margin_ratio == QDiv(QSub(revenue, variable_costs), revenue)
                breakeven_revenue == QDiv(fixed_costs, contribution_margin_ratio)
                required_increase ==
                    QMul(QDiv(QSub(breakeven_revenue, revenue), revenue), QInt(100))
                monthly_net_profit == QSub(QSub(revenue, variable_costs), fixed_costs)
                breakeven_months ==
                    IF monthly_net_profit.n > 0
                    THEN Trunc(QDiv(Amount(investment), monthly_net_profit))
                    ELSE 999
            IN [breakeven_revenue |-> Round2(breakeven_revenue),
                breakeven_months |-> breakeven_months,
                required_increase |-> Round2(required_increase),
                monthly_net_at_breakeven |-> 0,
                current_revenue |-> Round2(revenue),
                revenue_gap |-> Round2(QSub(breakeven_revenue, revenue))]

RECURSIVE daily_targets_loop(_, _)
daily_targets_loop(required_increase, ps) ==
    IF ps = <<>> THEN <<>>
    ELSE LET product == Head(ps)
             current_daily == product.daily_volume
             target_daily ==
                 Trunc(QMul(QInt(current_daily), QAdd(QInt(1), required_increase)))
             increase_needed == target_daily - current_daily
             increase_pct == QMul(required_increase, QInt(100))
         IN <<[product_name |-> product.name,
               current_daily |-> current_daily,
               target_daily |-> target_daily,
               increase_needed |-> increase_needed,
               increase_percentage |-> Round1(increase_pct)]>>
            \o daily_targets_loop(required_increase, Tail(ps))

calculate_daily_targets(investment, fixed, ps) ==
    LET breakeven_info == calculate_breakeven(investment, fixed, ps)
        required_increase == QDiv(Dec(breakeven_info.required_increase), QInt(100))
    IN daily_targets_loop(required_increase, ps)

\* The dict calculate_all returns when calculate_breakeven does not raise.
\* The float() fields hold Decimals of 2 places and are kept in hundredths,
\* but for monthly_fixed_cost, the input as it came (thousandths); net_margin
\* is converted unrounded and kept as the exact quotient.
calculate_all(investment, fixed, ps) ==
    LET revenue == calculate_monthly_revenue(ps)
        variable_costs == calculate_monthly_variable_costs(ps)
        gross_margin == calculate_gross_margin(ps)
        net_profit == calculate_net_profit(fixed, ps)
        breakeven == calculate_breakeven(investment, fixed, ps)
        daily_targets == calculate_daily_targets(investment, fixed, ps)
    IN [monthly_revenue |-> Round2(revenue),
        monthly_variable_cost |-> Round2(variable_costs),
        monthly_fixed_cost |-> fixed,
        monthly_net_profit |-> net_profit,
        gross_margin |-> gross_margin,
        net_margin |-> IF revenue.n > 0
                       THEN QMul(QDiv(Dec(net_profit), revenue), QInt(100))
                       ELSE QInt(0),
        breakeven |-> breakeven,
        daily_targets |-> daily_targets]

-----------------------------------------------------------------------------
(* RiskAnalyzer (app/core/risk_analyzer.py) *)

\* What one rule of analyze() does: the points it adds and, when a branch of
\* the rule is taken, the warning it appends.  A message is its f-string
\* (template) with the values substituted into it; the figure is kept as
\* the exact value, its rendering as text is not modelled.
Fired(points, type, template, name, figure) ==
    [fired |-> TRUE, points |-> points,
     warning |-> [type |-> type,
                  message |-> [template |-> template, product_name |-> name,
                               figure |-> figure]]]

NotFired ==
    [fired |-> FALSE, points |-> 0,
     warning |-> [type |-> "",
                  message |-> [template |-> "", product_name |-> "",
                               figure |-> QInt(0)]]]

\* payback_rule with the critical tier at >= 24 instead of > 24.
payback_rule_CriticalAt24(breakeven_months) ==
    IF breakeven_months >= 24
    THEN Fired(40, "critical", "Yatirim geri donus suresi cok uzun: {breakeven_months} ay",
               "", QInt(breakeven_months))
    ELSE IF breakeven_months > 18
    THEN Fired(30, "high", "Yatirim geri donus suresi yuksek: {breakeven_months} ay",
               "", QInt(breakeven_months))
    ELSE IF breakeven_months > 12
    THEN Fired(15, "medium", "Yatirim geri donus suresi: {breakeven_months} ay",
               "", QInt(breakeven_months))
    ELSE NotFired

\* 1. payback period (breakeven_months is an int)
payback_rule(breakeven_months) ==
    IF breakeven_months > 24
    THEN Fired(40, "critical", "Yatirim geri donus suresi cok uzun: {breakeven_months} ay",
               "", QInt(breakeven_months))
    ELSE IF breakeven_months > 18
    THEN Fired(30, "high", "Yatirim geri donus suresi yuksek: {breakeven_months} ay",
               "", QInt(breakeven_months))
    ELSE IF breakeven_months > 12
    THEN Fired(15, "medium", "Yatirim geri donus suresi: {breakeven_months} ay",
               "", QInt(breakeven_months))
    ELSE NotFired

\* sales_gap_rule on the size of the required change, whatever its sign.
sales_gap_rule_Magnitude(required_increase) ==
    IF Abs(required_increase) > 100 * 100
    THEN Fired(40, "critical",
               "Satislari %{required_increase:.0f} artirmaniz gerekiyor - cok yuksek!",
               "", Dec(required_increase))
    ELSE IF Abs(required_increase) > 50 * 100
    THEN Fired(25, "high", "Satislari %{required_increase:.0f} artirmaniz gerekiyor",
               "", Dec(required_increase))
    ELSE IF Abs(required_increase) > 25 * 100
    THEN Fired(10, "medium", "Satislari %{required_increase:.0f} artirmaniz hedefleniyor",
               "", Dec(required_increase))
    ELSE NotFired

\* sales_gap_rule with independent ifs in place of the elif chain: every
\* matching tier adds its points, the warning is that of the highest.
sales_gap_rule_AllTiers(required_increase) ==
    IF required_increase > 100 * 100
    THEN Fired(40 + 25 + 10, "critical",
               "Satislari %{required_increase:.0f} artirmaniz gerekiyor - cok yuksek!",
               "", Dec(required_increase))
    ELSE IF required_increase > 50 * 100
    THEN Fired(25 + 10, "high", "Satislari %{required_increase:.0f} artirmaniz gerekiyor",
               "", Dec(required_increase))
    ELSE IF required_increase > 25 * 100
    THEN Fired(10, "medium", "Satislari %{required_increase:.0f} artirmaniz hedefleniyor",
               "", Dec(required_increase))
    ELSE NotFired

\* sales_gap_rule with the critical tier at >= 100 instead of > 100.
sales_gap_rule_CriticalAt100(required_increase) ==
    IF required_increase >= 100 * 100
    THEN Fired(40, "critical",
               "Satislari %{required_increase:.0f} artirmaniz gerekiyor - cok yuksek!",
               "", Dec(required_increase))
    ELSE IF required_increase > 50 * 100
    THEN Fired(25, "high", "Satislari %{required_increase:.0f} artirmaniz gerekiyor",
               "", Dec(required_increase))
    ELSE IF required_increase > 25 * 100
    THEN Fired(10, "medium", "Satislari %{required_increase:.0f} artirmaniz hedefleniyor",
               "", Dec(required_increase))
    ELSE NotFired

\* 2. required sales increase (hundredths of a percent)
sales_gap_rule(required_increase) ==
    IF required_increase > 100 * 100
    THEN Fired(40, "critical",
               "Satislari %{required_increase:.0f} artirmaniz gerekiyor - cok yuksek!",
               "", Dec(required_increase))
    ELSE IF required_increase > 50 * 100
    THEN Fired(25, "high", "Satislari %{required_increase:.0f} artirmaniz gerekiyor",
               "", Dec(required_increase))
    ELSE IF required_increase > 25 * 100
    THEN Fired(10, "medium", "Satislari %{required_increase:.0f} artirmaniz hedefleniyor",
               "", Dec(required_increase))
    ELSE NotFired

\* margin_rule with the high tier at <= 30 instead of < 30.
margin_rule_HighAt30(gross_margin) ==
    IF gross_margin <= 30 * 100
    THEN Fired(25, "high", "Brut kar marji dusuk: %{gross_margin:.1f}",
               "", Dec(gross_margin))
    ELSE IF gross_margin < 40 * 100
    THEN Fired(10, "medium", "Brut kar marji iyilestirilebilir: %{gross_margin:.1f}",
               "", Dec(gross_margin))
    ELSE NotFired

\* 3. gross margin (hundredths of a percent)
margin_rule(gross_margin) ==
    IF gross_margin < 30 * 100
    THEN Fired(25, "high", "Brut kar marji dusuk: %{gross_margin:.1f}",
               "", Dec(gross_margin))
    ELSE IF gross_margin < 40 * 100
    THEN Fired(10, "medium", "Brut kar marji iyilestirilebilir: %{gross_margin:.1f}",
               "", Dec(gross_margin))
    ELSE NotFired

\* 4. emergency fund: months of fixed cost it covers.  monthly_fixed is
\* Decimal(str(float)), which gives back the decimal value the float was made
\* from (it has fewer than 15 significant digits).
coverage_months(fund, monthly_fixed_cost) ==
    LET monthly_fixed == Amount(monthly_fixed_cost)
    IN IF monthly_fixed.n > 0 THEN QDiv(Amount(fund), monthly_fixed) ELSE QInt(0)

\* emergency_rule firing at exactly 3 months too.
emergency_rule_AtMost3(months) ==
    IF ~QLess(QInt(3), months)
    THEN Fired(15, "high",
               "Acil durum fonu yetersiz: {emergency_months:.1f} ay (onerilen: 3 ay)",
               "", months)
    ELSE NotFired

emergency_rule(months) ==
    IF QLess(months, QInt(3))
    THEN Fired(15, "high",
               "Acil durum fonu yetersiz: {emergency_months:.1f} ay (onerilen: 3 ay)",
               "", months)
    ELSE NotFired

\* target_rule firing from 80 instead of above 80.
target_rule_From80(target) ==
    IF target.increase_percentage >= 80 * 100
    THEN Fired(10, "medium",
               "{product_name}: Gunde {target_daily} adet satis hedefi zorlayici",
               target.product_name, QInt(target.target_daily))
    ELSE NotFired

\* 5. one daily target
target_rule(target) ==
    IF target.increase_percentage > 80 * 100
    THEN Fired(10, "medium",
               "{product_name}: Gunde {target_daily} adet satis hedefi zorlayici",
               target.product_name, QInt(target.target_daily))
    ELSE NotFired

\* risk_level with "high" from above 80 instead of from 80.
risk_level_HighAbove80(score) ==
    IF score > 80 THEN "high"
    ELSE IF score >= 50 THEN "medium"
    ELSE "low"

risk_level(score) ==
    IF score >= 80 THEN "high"
    ELSE IF score >= 50 THEN "medium"
    ELSE "low"

Min(a, b) == IF a < b THEN a ELSE b

\* reported_score without the clamp.
reported_score_Unclamped(score) == score

\* "risk_score": min(risk_score, 100)
reported_score(score) == Min(score, 100)

\* The odd k below 400 that are no multiple of 5 and whose nearest double lies
\* above k/20 (2.95 is held as 2.95000000000000017...): round() of such a
\* float goes up, of the others down.
FloatAboveTwentieths ==
    {1, 9, 11, 13, 21, 27, 31, 37, 47, 49, 57, 59, 67, 69, 77, 79, 83, 89, 93, 99,
     103, 109, 113, 119, 123, 129, 133, 139, 143, 149, 153, 159, 161, 163, 171,
     173, 181, 183, 191, 193, 201, 203, 211, 213, 221, 223, 231, 233, 241, 243,
     251, 253, 261, 263, 271, 273, 281, 283, 291, 293, 301, 303, 311, 313, 321,
     327, 331, 337, 341, 347, 351, 357, 361, 367, 371, 377, 381, 387, 391, 397}

FloatTieUp == [k \in {j \in 1..399 : j % 2 = 1 /\ j % 5 # 0} |-> k \in FloatAboveTwentieths]

\* round(x, 1) as a cut after the first decimal place.
round_float_1_Floor(x) ==
    LET t == QMul(x, QInt(10))
    IN t.n \div t.d

\* round(x, 1) of the float nearest to x >= 0, in tenths.  A float is rounded
\* by its exact binary value: a tie k/20 is exact only when k is a multiple
\* of 5 (then to the even tenth), otherwise the float is already off the tie.
round_float_1(x) ==
    LET t == QMul(x, QInt(10))
        f == t.n \div t.d
        r == t.n - f * t.d
    IN IF 2 * r < t.d THEN f
       ELSE IF 2 * r > t.d THEN f + 1
       ELSE IF (2 * f + 1) % 5 = 0 THEN (IF f % 2 = 0 THEN f ELSE f + 1)
       ELSE IF FloatTieUp[2 * f + 1] THEN f + 1 ELSE f

-----------------------------------------------------------------------------
(* Inputs *)

ProductCatalog ==
    {Product("A", 1000, 2000, 10, 26),     \* 10.00 -> 20.00
     Product("B", 2000, 2000, 10, 26),     \* sold at cost
     Product("C", 3000, 2000, 10, 26),     \* sold below cost
     Product("D", 150, 800, 3, 1),
     Product("E", 700, 900, 7, 3)}

\* thousandths: 10000.000, 120000.000
InvestmentValues == {10000000, 120000000, 1599000000}

\* thousandths: 1000.000, 5000.000, and 1000.125, which has a third decimal
FixedCostValues == {1000000, 2600000, 5000000, 1000125}

\* thousandths: 0, 2950.000, 15000.000
EmergencyFundValues == {0, 2950000, 15000000}

RECURSIVE SeqsUpTo(_, _)
SeqsUpTo(S, n) ==
    IF n = 0 THEN {<<>>}
    ELSE LET shorter == SeqsUpTo(S, n - 1)
         IN shorter \cup {Append(q, x) : q \in {w \in shorter : Len(w) = n - 1}, x \in S}

NoResults == [raised |-> TRUE]

NoAnalysis == [returned |-> FALSE]

(* The web service: the tables and the template catalog (app/api, app/models) *)

MaxUsers == 2

MaxProjects == 2

MaxCalculations == 2

\* rows the products table is given in all
MaxRows == 2

\* A price as Python holds it: its type, and its value in hundredths.
DecimalOf(h) == [type |-> "Decimal", value |-> h]

\* float(d): every price and estimate of the catalog is a multiple of 0.5,
\* which a float holds exactly, so the value stays and the type changes.
to_float(d) == [type |-> "float", value |-> d.value]

TemplateProduct(name, cost, price, volume, days) ==
    [name |-> name, cost_per_unit |-> DecimalOf(cost), selling_price |-> DecimalOf(price),
     daily_volume |-> volume, working_days_per_month |-> days]

TemplateIds == {"cafe", "restaurant", "bakery", "ecommerce", "gym", "beauty_salon"}

BUSINESS_TEMPLATES ==
    [template_id \in TemplateIds |->
        CASE template_id = "cafe" ->
            [name |-> "Kafe Isletmesi", industry |-> "Kafe / Restoran",
             products |-> <<TemplateProduct("Turk Kahvesi", 350, 2500, 30, 26),
                            TemplateProduct("Filtre Kahve", 400, 3500, 50, 26),
                            TemplateProduct("Pasta / Kek", 1000, 4500, 20, 26)>>,
             estimated_initial_investment |-> DecimalOf(50000000),
             estimated_monthly_fixed_costs |-> DecimalOf(5000000)]
          [] template_id = "restaurant" ->
            [name |-> "Restoran Isletmesi", industry |-> "Restoran",
             products |-> <<TemplateProduct("Ana Yemek", 2500, 12000, 40, 26),
                            TemplateProduct("Corba", 800, 4500, 35, 26),
                            TemplateProduct("Icecek", 500, 2500, 50, 26)>>,
             estimated_initial_investment |-> DecimalOf(80000000),
             estimated_monthly_fixed_costs |-> DecimalOf(8000000)]
          [] template_id = "bakery" ->
            [name |-> "Firin Isletmesi", industry |-> "Firin / Pastane",
             products |-> <<TemplateProduct("Ekmek", 200, 1000, 200, 30),
                            TemplateProduct("Simit", 150, 800, 150, 30),
                            TemplateProduct("Borek", 500, 2500, 80, 30)>>,
             estimated_initial_investment |-> DecimalOf(60000000),
             estimated_monthly_fixed_costs |-> DecimalOf(6000000)]
          [] template_id = "ecommerce" ->
            [name |-> "E-Ticaret Isletmesi", industry |-> "E-Ticaret",
             products |-> <<TemplateProduct("Urun Kategori A", 5000, 15000, 10, 30),
                            TemplateProduct("Urun Kategori B", 3000, 9000, 15, 30),
                            TemplateProduct("Aksesuar", 1000, 4000, 20, 30)>>,
             estimated_initial_investment |-> DecimalOf(30000000),
             estimated_monthly_fixed_costs |-> DecimalOf(3500000)]
          [] template_id = "gym" ->
            [name |-> "Spor Salonu", industry |-> "Spor / Fitness",
             products |-> <<TemplateProduct("Aylik Uyelik", 5000, 50000, 3, 26),
                            TemplateProduct("3 Aylik Uyelik", 12000, 120000, 2, 26),
                            TemplateProduct("Ozel Ders", 5000, 30000, 2, 26)>>,
             estimated_initial_investment |-> DecimalOf(100000000),
             estimated_monthly_fixed_costs |-> DecimalOf(10000000)]
          [] template_id = "beauty_salon" ->
            [name |-> "Guzellik Salonu", industry |-> "Guzellik / Kuafor",
             products |-> <<TemplateProduct("Sac Kesimi", 2000, 15000, 8, 26),
                            TemplateProduct("Boya / Rofle", 8000, 50000, 3, 26),
                            TemplateProduct("Cilt Bakimi", 5000, 40000, 2, 26)>>,
             estimated_initial_investment |-> DecimalOf(40000000),
             estimated_monthly_fixed_costs |-> DecimalOf(4500000)]]

\* The tables users, business_projects, products and calculations, and the
\* last value each id sequence gave out.
NoRows ==
    [users |-> {}, projects |-> {}, products |-> {}, calculations |-> {},
     last_id |-> [users |-> 0, projects |-> 0, products |-> 0, calculations |-> 0]]

NoRequest == [pending |-> FALSE]

NoResponse == [sent |-> FALSE]

service == <<db, templates, request, response>>

ServiceInit ==
    /\ db = NoRows
    /\ templates = BUSINESS_TEMPLATES
    /\ request = NoRequest
    /\ response = NoResponse

\* The core used on its own: app.api, and with it the catalog, is not
\* imported, and no table is touched.
ServiceAbsent ==
    /\ db = NoRows
    /\ templates = <<>>
    /\ request = NoRequest
    /\ response = NoResponse

\* What a caller keeps of its earlier calls.
session == <<previous, calls>>

NoPrevious == [returned |-> FALSE]

SessionInit ==
    /\ previous = NoPrevious
    /\ calls = 1

AnalyzerLocalsInit ==
    /\ risk_score = 0
    /\ warnings = <<>>
    /\ level = "low"
    /\ emergency_months = QInt(0)
    /\ idx = 1
    /\ risk_analysis = NoAnalysis

\* A calculator and its inputs, before calculate_all is called.
Init ==
    /\ initial_investment \in InvestmentValues
    /\ monthly_fixed_costs \in FixedCostValues
    /\ emergency_fund \in EmergencyFundValues
    /\ products \in SeqsUpTo(ProductCatalog, MaxProducts)
    /\ results = NoResults
    /\ raised = ""
    /\ pc = "calculate"
    /\ AnalyzerLocalsInit
    /\ SessionInit
    /\ ServiceAbsent

-----------------------------------------------------------------------------
(* Operations *)

\* results = calculator.calculate_all(): returns the dict, or the exception
\* of calculate_breakeven propagates and no analysis follows.
CalculateAll ==
    /\ pc = "calculate"
    /\ LET exc == calculate_breakeven_raises(monthly_fixed_costs, products)
       IN IF exc # ""
          THEN /\ raised' = exc
               /\ pc' = "raised"
               /\ UNCHANGED results
          ELSE /\ results' = calculate_all(initial_investment, monthly_fixed_costs, products)
               /\ pc' = "analyze"
               /\ UNCHANGED raised
    /\ UNCHANGED <<initial_investment, monthly_fixed_costs, emergency_fund, products,
                   risk_score, warnings, level, emergency_months, idx, risk_analysis,
                   session, service>>

inputs == <<initial_investment, monthly_fixed_costs, emergency_fund, products,
            results, raised>>

\* Apply with warnings.insert(0, ...) in place of warnings.append(...).
Apply_Prepend(t) ==
    /\ risk_score' = risk_score + t.points
    /\ warnings' = IF t.fired THEN <<t.warning>> \o warnings ELSE warnings

\* A rule's outcome applied to the locals of analyze().
Apply(t) ==
    /\ risk_score' = risk_score + t.points
    /\ warnings' = IF t.fired THEN Append(warnings, t.warning) ELSE warnings

\* analyze() with risk_score and warnings kept from the call before, as
\* attributes of the analyzer would be.
AnalyzeEnter_KeepsScore ==
    /\ pc = "analyze"
    /\ level' = "low"
    /\ pc' = "payback"
    /\ UNCHANGED <<inputs, session, service, risk_score, warnings, emergency_months, idx,
                   risk_analysis>>

\* analyze(), lines 20-22
AnalyzeEnter ==
    /\ pc = "analyze"
    /\ risk_score' = 0
    /\ warnings' = <<>>
    /\ level' = "low"
    /\ pc' = "payback"
    /\ UNCHANGED <<inputs, session, service, emergency_months, idx, risk_analysis>>

PaybackStep ==
    /\ pc = "payback"
    /\ Apply(payback_rule(results.breakeven.breakeven_months))
    /\ pc' = "sales_gap"
    /\ UNCHANGED <<inputs, session, service, level, emergency_months, idx, risk_analysis>>

SalesGapStep ==
    /\ pc = "sales_gap"
    /\ Apply(sales_gap_rule(results.breakeven.required_increase))
    /\ pc' = "margin"
    /\ UNCHANGED <<inputs, session, service, level, emergency_months, idx, risk_analysis>>

MarginStep ==
    /\ pc = "margin"
    /\ Apply(margin_rule(results.gross_margin))
    /\ pc' = "emergency"
    /\ UNCHANGED <<inputs, session, service, level, emergency_months, idx, risk_analysis>>

EmergencyStep ==
    /\ pc = "emergency"
    /\ emergency_months' = coverage_months(emergency_fund, results.monthly_fixed_cost)
    /\ Apply(emergency_rule(emergency_months'))
    /\ idx' = 1
    /\ pc' = "targets"
    /\ UNCHANGED <<inputs, session, service, level, risk_analysis>>

\* The loop over daily_targets taking each target off the list it reads
\* (daily_targets.pop(0)).
TargetStep_Pop ==
    /\ pc = "targets"
    /\ results.daily_targets # <<>>
    /\ Apply(target_rule(Head(results.daily_targets)))
    /\ results' = [results EXCEPT !.daily_targets = Tail(@)]
    /\ UNCHANGED <<initial_investment, monthly_fixed_costs, emergency_fund, products,
                   raised, session, service, pc, level, emergency_months, idx, risk_analysis>>

\* one iteration of the loop over daily_targets
TargetStep ==
    /\ pc = "targets"
    /\ idx <= Len(results.daily_targets)
    /\ Apply(target_rule(results.daily_targets[idx]))
    /\ idx' = idx + 1
    /\ UNCHANGED <<inputs, session, service, pc, level, emergency_months, risk_analysis>>

\* after the loop: the level, and the dict returned
AnalyzeReturn ==
    /\ pc = "targets"
    /\ idx > Len(results.daily_targets)
    /\ level' = risk_level(risk_score)
    /\ risk_analysis' = [risk_score |-> reported_score(risk_score),
                         risk_level |-> level',
                         warnings |-> warnings,
                         emergency_fund_months |-> round_float_1(emergency_months)]
    /\ pc' = "done"
    /\ UNCHANGED <<inputs, session, service, risk_score, warnings, emergency_months, idx>>

Analyze ==
    \/ AnalyzeEnter
    \/ PaybackStep
    \/ SalesGapStep
    \/ MarginStep
    \/ EmergencyStep
    \/ TargetStep
    \/ AnalyzeReturn

Next == CalculateAll \/ Analyze

Spec == Init /\ [][Next]_vars

-----------------------------------------------------------------------------
(* The analyzer on any result-shaped input *)

\* analyze() reads five entries of the result it is given; these supply them
\* on both sides of every threshold.
MonthsValues == {6, 12, 13, 18, 19, 24, 25, 999}

IncreaseValues == {-6154, 2500, 2501, 5000, 5001, 10000, 10001}

MarginValues == {-5000, 2999, 3000, 3999, 4000}

ResultFixedCostValues == {0, 1000000, 5000000}

Target(name, target, pct) ==
    [product_name |-> name, target_daily |-> target, increase_percentage |-> pct]

TargetCatalog ==
    {Target("A", 18, 8000), Target("B", 19, 8010), Target("C", 3, -6150),
     Target("D", 40, 15000)}

InitRisk ==
    /\ initial_investment \in {10000000}
    /\ emergency_fund \in EmergencyFundValues
    /\ \E months \in MonthsValues, increase \in IncreaseValues, margin \in MarginValues,
          fixed \in ResultFixedCostValues,
          targets \in SeqsUpTo(TargetCatalog, MaxProducts) :
          /\ results = [breakeven |-> [breakeven_months |-> months,
                                       required_increase |-> increase],
                        gross_margin |-> margin,
                        monthly_fixed_cost |-> fixed,
                        daily_targets |-> targets]
          /\ monthly_fixed_costs = fixed
    /\ products = <<>>
    /\ raised = ""
    /\ pc = "analyze"
    /\ AnalyzerLocalsInit
    /\ SessionInit
    /\ ServiceAbsent

NextRisk == Analyze

SpecRisk == InitRisk /\ [][NextRisk]_vars

-----------------------------------------------------------------------------
(* Properties of the calculator, checked under Spec *)

Returned == pc \notin {"calculate", "raised"}

\* C1: calculate_all raises no exception for any valid input (positive
\* investment and fixed costs, any list of products with positive cost,
\* price and volume and 1..31 working days), also when revenue equals
\* variable cost and when the margin is negative.
C1_NoException == pc # "raised" /\ raised = ""

\* What calculate_all returns for an empty product list, but for the net
\* profit.
EmptyListResult ==
    /\ raised = ""
    /\ Returned
    /\ results.monthly_revenue = 0
    /\ results.monthly_variable_cost = 0
    /\ results.gross_margin = 0
    /\ results.net_margin.n = 0
    /\ results.breakeven.breakeven_months = 999
    /\ results.breakeven.required_increase = 100 * 100
    /\ results.breakeven.breakeven_revenue = 0
    /\ results.daily_targets = <<>>

\* C2 (as stated): for an empty product list and any fixed_costs > 0
\* calculate_all returns revenue 0, variable cost 0, net profit -fixed_costs,
\* gross margin 0, net margin 0, breakeven months 999, required increase 100,
\* breakeven revenue 0 and no daily targets.
C2_AsStated ==
    (products = <<>> /\ pc # "calculate") =>
        /\ EmptyListResult
        /\ 10 * results.monthly_net_profit = -monthly_fixed_costs

\* C2 (amended): as stated, with net profit = -fixed_costs rounded to 2
\* places: -fixed_costs itself when fixed_costs has at most 2 decimal places,
\* otherwise a 2-place value within half a hundredth of it.
C2_EmptyProductList ==
    (products = <<>> /\ pc # "calculate") =>
        /\ EmptyListResult
        /\ 2 * Abs(10 * results.monthly_net_profit + monthly_fixed_costs) <= 10
        /\ monthly_fixed_costs % 10 = 0 =>
              10 * results.monthly_net_profit = -monthly_fixed_costs

C2_Witness ==
    /\ products = <<>>
    /\ pc = "analyze"
    /\ monthly_fixed_costs = 1000125
    /\ results.monthly_net_profit = -100012
    /\ results.breakeven.breakeven_months = 999

-----------------------------------------------------------------------------
(* Properties of the analyzer, checked under SpecRisk *)

NoRevenueInput ==
    /\ results.breakeven.breakeven_months = 999
    /\ results.breakeven.required_increase = 100 * 100

\* C3 (as stated): with breakeven_months = 999 and required_increase = 100 the
\* payback and sales-gap rules give at least 80 points, so the score is at
\* least 80 and the level is "high" whatever the other inputs are.
C3_AsStated ==
    (pc = "done" /\ NoRevenueInput) =>
        /\ risk_analysis.risk_score >= 80
        /\ risk_analysis.risk_level = "high"

\* C3 (amended): with breakeven_months = 999 and required_increase = 100 the
\* payback rule gives 40 (critical) and the sales-gap rule 25 (high, since
\* 100 is not above 100): 65 points after the two rules, so the score is at
\* least 65 and the level "medium" or "high", "high" exactly when the other
\* rules add at least 15.
C3_NoRevenueScore ==
    NoRevenueInput =>
        /\ pc = "margin" =>
              /\ risk_score = 65
              /\ Len(warnings) = 2
              /\ warnings[1].type = "critical"
              /\ warnings[2].type = "high"
        /\ pc = "done" =>
              /\ risk_analysis.risk_score >= 65
              /\ risk_analysis.risk_level \in {"medium", "high"}
              /\ risk_analysis.risk_level = "high" <=> risk_score - 65 >= 15

C3_Witness ==
    /\ pc = "done"
    /\ NoRevenueInput
    /\ risk_analysis.risk_score = 65
    /\ risk_analysis.risk_level = "medium"

\* C4: the reported risk_score is an integer in 0..100, equal to 100 whenever
\* the sum of the rule contributions exceeds 100 and to that sum otherwise.
C4_ScoreClamped ==
    pc = "done" =>
        /\ risk_analysis.risk_score \in 0..100
        /\ risk_score > 100 => risk_analysis.risk_score = 100
        /\ risk_score <= 100 => risk_analysis.risk_score = risk_score

C4_Witness ==
    /\ pc = "done"
    /\ results.breakeven.breakeven_months = 999
    /\ results.breakeven.required_increase > 100 * 100
    /\ results.gross_margin < 30 * 100
    /\ Len(results.daily_targets) = 0
    /\ risk_score = 120
    /\ risk_analysis.risk_score = 100

\* C5: the reported level agrees with the reported (clamped) score: "high" iff
\* score >= 80, "medium" iff 50 <= score < 80, "low" iff score < 50.
C5_LevelMatchesReportedScore ==
    pc = "done" =>
        LET score == risk_analysis.risk_score
            lvl == risk_analysis.risk_level
        IN /\ lvl \in {"low", "medium", "high"}
           /\ lvl = "high" <=> score >= 80
           /\ lvl = "medium" <=> (score >= 50 /\ score < 80)
           /\ lvl = "low" <=> score < 50

C5_Witness ==
    /\ pc = "done"
    /\ risk_score > 100
    /\ risk_analysis.risk_score = 100
    /\ risk_analysis.risk_level = "high"

\* A step that adds exactly `points` and appends exactly one warning of
\* severity `type`; a step that adds nothing and appends nothing.
AddsWithWarning(points, type) ==
    /\ risk_score' = risk_score + points
    /\ Len(warnings') = Len(warnings) + 1
    /\ SubSeq(warnings', 1, Len(warnings)) = warnings
    /\ warnings'[Len(warnings')].type = type

AddsNothing ==
    /\ risk_score' = risk_score
    /\ warnings' = warnings

\* C6: the payback rule fires at most one tier: breakeven_months > 24 adds
\* exactly 40 with a critical warning, 19..24 exactly 30 with a high warning,
\* 13..18 exactly 15 with a medium warning, <= 12 nothing.
C6_PaybackRule ==
    [][pc = "payback" =>
          LET months == results.breakeven.breakeven_months
          IN /\ months > 24 => AddsWithWarning(40, "critical")
             /\ (18 < months /\ months <= 24) => AddsWithWarning(30, "high")
             /\ (12 < months /\ months <= 18) => AddsWithWarning(15, "medium")
             /\ months <= 12 => AddsNothing]_vars

C6_Witness ==
    /\ pc = "sales_gap"
    /\ results.breakeven.breakeven_months = 24
    /\ risk_score = 30
    /\ Len(warnings) = 1
    /\ warnings[1].type = "high"

\* C7: the sales-gap rule fires at most one tier: required_increase > 100 adds
\* exactly 40 (critical), in (50, 100] exactly 25 (high), in (25, 50] exactly
\* 10 (medium), <= 25 (negative values too) nothing.
C7_SalesGapRule ==
    [][pc = "sales_gap" =>
          LET increase == results.breakeven.required_increase
          IN /\ increase > 10000 => AddsWithWarning(40, "critical")
             /\ (5000 < increase /\ increase <= 10000) => AddsWithWarning(25, "high")
             /\ (2500 < increase /\ increase <= 5000) => AddsWithWarning(10, "medium")
             /\ increase <= 2500 => AddsNothing]_vars

C7_Witness ==
    /\ pc = "margin"
    /\ results.breakeven.breakeven_months = 25
    /\ results.breakeven.required_increase = 10001
    /\ risk_score = 40 + 40
    /\ Len(warnings) = 2
    /\ warnings[2].type = "critical"

\* C8: the margin rule adds exactly 25 with one high warning when
\* gross_margin < 30 (negative margins too), exactly 10 with one medium
\* warning when 30 <= gross_margin < 40, and nothing when gross_margin >= 40.
C8_MarginRule ==
    [][pc = "margin" =>
          LET margin == results.gross_margin
          IN /\ margin < 3000 => AddsWithWarning(25, "high")
             /\ (3000 <= margin /\ margin < 4000) => AddsWithWarning(10, "medium")
             /\ margin >= 4000 => AddsNothing]_vars

C8_Witness ==
    /\ pc = "emergency"
    /\ results.gross_margin < 0
    /\ results.breakeven.breakeven_months = 12
    /\ results.breakeven.required_increase = 2500
    /\ risk_score = 25
    /\ Len(warnings) = 1
    /\ warnings[1].type = "high"

\* C9: the emergency rule never divides by zero: the coverage is
\* emergency_fund / monthly_fixed_cost when the fixed cost is positive and 0
\* when it is 0; the rule adds exactly 15 with one high warning iff the
\* coverage is below 3; and the reported emergency_fund_months is the
\* coverage rounded to 1 decimal place (0 when the fixed cost is 0).
C9_EmergencyRule ==
    [][LET fixed == results.monthly_fixed_cost
           below3 == IF fixed > 0 THEN emergency_fund < 3 * fixed ELSE TRUE
       IN /\ pc = "emergency" =>
                /\ emergency_months'.d > 0
                /\ IF fixed > 0
                   THEN emergency_months'.n * fixed = emergency_fund * emergency_months'.d
                   ELSE emergency_months'.n = 0
                /\ IF below3 THEN AddsWithWarning(15, "high") ELSE AddsNothing
          /\ pc' = "done" =>
                LET tenths == risk_analysis'.emergency_fund_months
                IN IF fixed > 0
                   THEN 2 * Abs(10 * emergency_fund - tenths * fixed) <= fixed
                   ELSE tenths = 0]_vars

C9_Witness ==
    /\ pc = "done"
    /\ results.monthly_fixed_cost = 0
    /\ emergency_fund > 0
    /\ risk_analysis.emergency_fund_months = 0
    /\ results.breakeven.breakeven_months = 12
    /\ results.breakeven.required_increase = 2500
    /\ results.gross_margin = 4000
    /\ results.daily_targets = <<>>
    /\ risk_analysis.risk_score = 15
    /\ Len(risk_analysis.warnings) = 1
    /\ risk_analysis.warnings[1].type = "high"

StretchTemplate == "{product_name}: Gunde {target_daily} adet satis hedefi zorlayici"

\* The number of the first j daily targets whose increase_percentage is above 80.
StretchedAmong(j) ==
    Cardinality({i \in 1..j : results.daily_targets[i].increase_percentage > 8000})

StretchWarnings(ws) ==
    Cardinality({i \in 1..Len(ws) : ws[i].message.template = StretchTemplate})

\* C10: the stretch rule is cumulative: every daily target above 80 adds
\* exactly 10 and one medium warning of its own, a target at or below 80 adds
\* nothing; with k targets above 80 the rule adds 10 * k to the raw score and
\* k medium warnings in all.
C10_StretchRuleCumulative ==
    [][LET targets == results.daily_targets
       IN /\ pc = "emergency" => idx' = 1
          /\ (pc = "targets" /\ pc' = "targets") =>
                /\ idx <= Len(targets)
                /\ idx' = idx + 1
                /\ IF targets[idx].increase_percentage > 8000
                   THEN /\ AddsWithWarning(10, "medium")
                        /\ warnings'[Len(warnings')].message.product_name
                              = targets[idx].product_name
                   ELSE AddsNothing
          /\ pc = "targets" =>
                /\ risk_score' - 10 * StretchedAmong(idx' - 1)
                      = risk_score - 10 * StretchedAmong(idx - 1)
                /\ StretchWarnings(warnings') = StretchedAmong(idx' - 1)
          /\ (pc = "targets" /\ pc' = "done") =>
                /\ idx = Len(targets) + 1
                /\ StretchWarnings(risk_analysis'.warnings) = StretchedAmong(Len(targets))]_vars

C10_Witness ==
    /\ pc = "done"
    /\ Len(results.daily_targets) = 3
    /\ StretchedAmong(3) = 2
    /\ StretchWarnings(risk_analysis.warnings) = 2
    /\ results.breakeven.breakeven_months = 12
    /\ results.breakeven.required_increase = 2500
    /\ results.gross_margin = 4000
    /\ emergency_months = QInt(3)
    /\ risk_score = 20

-----------------------------------------------------------------------------
(* The warnings list as a whole *)

PaybackTemplates ==
    {"Yatirim geri donus suresi cok uzun: {breakeven_months} ay",
     "Yatirim geri donus suresi yuksek: {breakeven_months} ay",
     "Yatirim geri donus suresi: {breakeven_months} ay"}

SalesGapTemplates ==
    {"Satislari %{required_increase:.0f} artirmaniz gerekiyor - cok yuksek!",
     "Satislari %{required_increase:.0f} artirmaniz gerekiyor",
     "Satislari %{required_increase:.0f} artirmaniz hedefleniyor"}

MarginTemplates ==
    {"Brut kar marji dusuk: %{gross_margin:.1f}",
     "Brut kar marji iyilestirilebilir: %{gross_margin:.1f}"}

EmergencyTemplates ==
    {"Acil durum fonu yetersiz: {emergency_months:.1f} ay (onerilen: 3 ay)"}

\* The place in the order of the rules of the rule a warning comes from.
RuleOf(w) ==
    IF w.message.template \in PaybackTemplates THEN 1
    ELSE IF w.message.template \in SalesGapTemplates THEN 2
    ELSE IF w.message.template \in MarginTemplates THEN 3
    ELSE IF w.message.template \in EmergencyTemplates THEN 4
    ELSE IF w.message.template = StretchTemplate THEN 5
    ELSE 0

\* The points that go with a warning, by the rule and the severity.
PointsOf(w) ==
    LET rule == RuleOf(w)
    IN IF rule = 1
       THEN (IF w.type = "critical" THEN 40 ELSE IF w.type = "high" THEN 30 ELSE 15)
       ELSE IF rule = 2
       THEN (IF w.type = "critical" THEN 40 ELSE IF w.type = "high" THEN 25 ELSE 10)
       ELSE IF rule = 3
       THEN (IF w.type = "high" THEN 25 ELSE 10)
       ELSE IF rule = 4 THEN 15
       ELSE 10

RECURSIVE SumOfPoints(_)
SumOfPoints(ws) ==
    IF ws = <<>> THEN 0 ELSE PointsOf(ws[1]) + SumOfPoints(Tail(ws))

WarningsOfRule(ws, rule) == {i \in 1..Len(ws) : RuleOf(ws[i]) = rule}

IsStretchWarning(w) == RuleOf(w) = 5

IsStretchedTarget(t) == t.increase_percentage > 8000

ProductNames(s) == [i \in 1..Len(s) |-> s[i].product_name]

NamedInWarnings(ws) == [i \in 1..Len(ws) |-> ws[i].message.product_name]

\* C11: every rule that fires contributes exactly one warning, the warnings
\* come in the order of the rules (payback, sales gap, margin, emergency
\* fund, then the stretched products in the order of daily_targets), and the
\* raw score is the sum of the points of the warnings emitted.
C11_WarningsInRuleOrder ==
    /\ pc \in {"payback", "sales_gap", "margin", "emergency", "targets", "done"} =>
          /\ \A i \in 1..Len(warnings) : RuleOf(warnings[i]) \in 1..5
          /\ \A i, j \in 1..Len(warnings) :
                i < j => RuleOf(warnings[i]) <= RuleOf(warnings[j])
          /\ \A rule \in 1..4 : Cardinality(WarningsOfRule(warnings, rule)) <= 1
          /\ risk_score = SumOfPoints(warnings)
    /\ pc = "done" =>
          LET ws == risk_analysis.warnings
              below3 == IF results.monthly_fixed_cost > 0
                        THEN emergency_fund < 3 * results.monthly_fixed_cost
                        ELSE TRUE
          IN /\ ws = warnings
             /\ WarningsOfRule(ws, 1) # {} <=> results.breakeven.breakeven_months > 12
             /\ WarningsOfRule(ws, 2) # {} <=> results.breakeven.required_increase > 2500
             /\ WarningsOfRule(ws, 3) # {} <=> results.gross_margin < 4000
             /\ WarningsOfRule(ws, 4) # {} <=> below3
             /\ NamedInWarnings(SelectSeq(ws, IsStretchWarning))
                   = ProductNames(SelectSeq(results.daily_targets, IsStretchedTarget))

C11_Witness ==
    /\ pc = "done"
    /\ Len(risk_analysis.warnings) = 6
    /\ [i \in 1..6 |-> RuleOf(risk_analysis.warnings[i])] = <<1, 2, 3, 4, 5, 5>>
    /\ ProductNames(results.daily_targets) = <<"D", "A", "B">>
    /\ NamedInWarnings(SelectSeq(risk_analysis.warnings, IsStretchWarning)) = <<"D", "B">>
    /\ risk_score = 30 + 25 + 10 + 15 + 10 + 10

-----------------------------------------------------------------------------
(* The figures of the calculator, recomputed in integers *)

\* Exact monthly totals in hundredths: prices are whole hundredths, volumes
\* and days whole numbers.
RECURSIVE TotalRevenue(_)
TotalRevenue(ps) ==
    IF ps = <<>> THEN 0
    ELSE ps[1].selling_price * ps[1].daily_volume * ps[1].working_days_per_month
         + TotalRevenue(Tail(ps))

RECURSIVE TotalVariableCost(_)
TotalVariableCost(ps) ==
    IF ps = <<>> THEN 0
    ELSE ps[1].cost_per_unit * ps[1].daily_volume * ps[1].working_days_per_month
         + TotalVariableCost(Tail(ps))

Orderings(n) == {f \in [1..n -> 1..n] : \A i, j \in 1..n : f[i] = f[j] => i = j}

Reordered(ps, f) == [i \in 1..Len(ps) |-> ps[f[i]]]

\* C12: calculate_monthly_revenue is the exact sum of selling_price *
\* daily_volume * working_days_per_month over the products and
\* calculate_monthly_variable_costs the exact sum of cost_per_unit *
\* daily_volume * working_days_per_month: nothing is rounded or drifts, both
\* are 0 for an empty list and neither depends on the order of the products;
\* calculate_all reports these two totals.
C12_ExactSums ==
    /\ calculate_monthly_revenue(products) = Q(TotalRevenue(products), 100)
    /\ calculate_monthly_variable_costs(products) = Q(TotalVariableCost(products), 100)
    /\ products = <<>> =>
          /\ calculate_monthly_revenue(products) = QInt(0)
          /\ calculate_monthly_variable_costs(products) = QInt(0)
    /\ \A f \in Orderings(Len(products)) :
          /\ calculate_monthly_revenue(Reordered(products, f))
                = calculate_monthly_revenue(products)
          /\ calculate_monthly_variable_costs(Reordered(products, f))
                = calculate_monthly_variable_costs(products)
    /\ Returned =>
          /\ results.monthly_revenue = TotalRevenue(products)
          /\ results.monthly_variable_cost = TotalVariableCost(products)

C12_Witness ==
    /\ Returned
    /\ Len(products) = 3
    /\ [i \in 1..3 |-> products[i].name] = <<"E", "A", "D">>
    /\ results.monthly_revenue = 18900 + 520000 + 2400
    /\ results.monthly_variable_cost = 14700 + 260000 + 450

-----------------------------------------------------------------------------
(* calculate_gross_margin on its own *)

\* The products of ProductCatalog and two that sell a cent below cost at a
\* price of 200 and more, where the loss is 0.005 % of the revenue or less.
MarginCatalog ==
    ProductCatalog \cup {Product("F", 25001, 25000, 1, 1), Product("G", 20001, 20000, 1, 1)}

InitGrossMargin ==
    /\ initial_investment \in {10000000}
    /\ monthly_fixed_costs \in {1000000}
    /\ emergency_fund \in {0}
    /\ products \in SeqsUpTo(MarginCatalog, MaxProducts)
    /\ results = NoResults
    /\ raised = ""
    /\ pc = "gross_margin"
    /\ AnalyzerLocalsInit
    /\ SessionInit
    /\ ServiceAbsent

\* gross_margin = calculator.calculate_gross_margin()
GrossMargin ==
    /\ pc = "gross_margin"
    /\ results' = [gross_margin |-> calculate_gross_margin(products)]
    /\ pc' = "returned"
    /\ UNCHANGED <<initial_investment, monthly_fixed_costs, emergency_fund, products,
                   raised, risk_score, warnings, level, emergency_months, idx,
                   risk_analysis, session, service>>

NextGrossMargin == GrossMargin

SpecGrossMargin == InitGrossMargin /\ [][NextGrossMargin]_vars

\* h (hundredths) is a multiple of 0.01 nearest to the rational x.
NearestHundredth(h, x) ==
    LET f == x.n \div x.d
        r == x.n - f * x.d
        k == h - 100 * f
    IN /\ k \in 0..100
       /\ 2 * Abs(k * x.d - 100 * r) <= x.d

\* What C13 says of every product list but for the sign of a negative margin.
GrossMarginValue ==
    LET R == TotalRevenue(products)
        V == TotalVariableCost(products)
    IN /\ results.gross_margin \in Int
       /\ R = 0 => results.gross_margin = 0
       /\ R > 0 => NearestHundredth(results.gross_margin, QMul(Q(R - V, R), QInt(100)))

\* C13 (as stated): calculate_gross_margin returns 0 when the revenue is 0
\* and otherwise ((revenue - variable_cost) / revenue) * 100 rounded to 2
\* decimal places; when the variable cost exceeds the revenue it does not
\* raise and returns a value below 0.
C13_AsStated ==
    pc = "returned" =>
        /\ GrossMarginValue
        /\ TotalVariableCost(products) > TotalRevenue(products) =>
              results.gross_margin < 0

\* C13 (amended): calculate_gross_margin returns 0 when the revenue is 0 and
\* otherwise ((revenue - variable_cost) / revenue) * 100 rounded to 2 decimal
\* places; when the variable cost exceeds the revenue it does not raise and
\* returns a value below 0, unless the loss is at most 0.005 % of the
\* revenue, where the margin rounds to 0.
C13_GrossMargin ==
    pc = "returned" =>
        LET R == TotalRevenue(products)
            V == TotalVariableCost(products)
        IN /\ GrossMarginValue
           /\ V > R =>
                 /\ results.gross_margin <= 0
                 /\ results.gross_margin = 0 <=> V - R <= R \div 20000

C13_Witness ==
    /\ pc = "returned"
    /\ Len(products) = 1
    /\ products[1].name = "F"
    /\ TotalVariableCost(products) > TotalRevenue(products)
    /\ results.gross_margin = 0

-----------------------------------------------------------------------------
(* Rounding, net profit and break-even, checked under Spec *)

\* x rounded to hundredths with a tie going away from zero.
RoundHalfAway2(x) ==
    LET n == Abs(x.n)
        f == n \div x.d
        r == n - f * x.d
        h == (100 * r) \div x.d
        rest == 100 * r - h * x.d
        m == 100 * f + h + (IF 2 * rest >= x.d THEN 1 ELSE 0)
    IN IF x.n < 0 THEN -m ELSE m

\* The exact figures behind the rounded fields, from the integer totals.
ExactNetProfit ==
    Q(10 * TotalRevenue(products) - 10 * TotalVariableCost(products)
        - monthly_fixed_costs, 1000)

ExactGrossMargin ==
    QMul(Q(TotalRevenue(products) - TotalVariableCost(products), TotalRevenue(products)),
         QInt(100))

ExactBreakevenRevenue ==
    QDiv(Amount(monthly_fixed_costs),
         Q(TotalRevenue(products) - TotalVariableCost(products), TotalRevenue(products)))

ExactRequiredIncrease ==
    QMul(QDiv(QSub(ExactBreakevenRevenue, Q(TotalRevenue(products), 100)),
              Q(TotalRevenue(products), 100)),
         QInt(100))

\* C14: every round(x, 2) of the calculator rounds a tie away from zero
\* (2.345 gives 2.35 and -2.345 gives -2.35), the same way for the gross
\* margin, the net profit, the break-even revenue and the required increase.
C14_RoundsHalfAwayFromZero ==
    Returned =>
        /\ results.monthly_net_profit = RoundHalfAway2(ExactNetProfit)
        /\ TotalRevenue(products) > 0 =>
              /\ results.gross_margin = RoundHalfAway2(ExactGrossMargin)
              /\ results.breakeven.breakeven_revenue = RoundHalfAway2(ExactBreakevenRevenue)
              /\ results.breakeven.required_increase = RoundHalfAway2(ExactRequiredIncrease)


\* Scenario A: one product with cost 10, price 20, 10 units a day on 26 days,
\* fixed costs 1000.
ScenarioA ==
    /\ products = <<Product("A", 1000, 2000, 10, 26)>>
    /\ monthly_fixed_costs = 1000000

\* C15: monthly_net_profit is revenue - variable cost - fixed costs rounded
\* to 2 decimal places for every input; in Scenario A it is 1600.00, with
\* revenue 5200.00, variable cost 2600.00 and gross margin 50.0.
C15_NetProfit ==
    /\ NearestHundredth(calculate_net_profit(monthly_fixed_costs, products), ExactNetProfit)
    /\ Returned =>
          /\ results.monthly_net_profit
                = calculate_net_profit(monthly_fixed_costs, products)
          /\ ScenarioA =>
                /\ results.monthly_net_profit = 160000
                /\ results.monthly_revenue = 520000
                /\ results.monthly_variable_cost = 260000
                /\ results.gross_margin = 5000

C15_Witness ==
    /\ Returned
    /\ ScenarioA
    /\ results.monthly_net_profit = 160000


\* The payback period of an investment and a monthly profit, both in
\* thousandths: whole months when the profit is positive, else the sentinel.
PaybackMonths(investment, profit) ==
    IF profit > 0 THEN investment \div profit ELSE 999

\* C16: with revenue above 0, breakeven_months is floor(initial_investment /
\* net_profit) when the net profit is above 0 (investment 10000 and net
\* profit 1600 give 6) and 999 when the net profit is 0 or below, 0 included.
\* The net profit is revenue - variable cost - fixed costs; where the fixed
\* costs have at most 2 decimal places it is the reported monthly_net_profit.
C16_BreakevenMonths ==
    (Returned /\ TotalRevenue(products) > 0) =>
        LET profit == 10 * TotalRevenue(products) - 10 * TotalVariableCost(products)
                        - monthly_fixed_costs
        IN /\ results.breakeven.breakeven_months = PaybackMonths(initial_investment, profit)
           /\ monthly_fixed_costs % 10 = 0 =>
                 results.breakeven.breakeven_months
                    = PaybackMonths(initial_investment, 10 * results.monthly_net_profit)
           /\ (ScenarioA /\ initial_investment = 10000000) =>
                 results.breakeven.breakeven_months = 6

C16_Witness ==
    /\ Returned
    /\ TotalRevenue(products) = 520000
    /\ results.monthly_net_profit = 0
    /\ results.breakeven.breakeven_months = 999


\* The required increase recomputed from the reported break-even revenue b
\* (hundredths) and the revenue.
IncreaseFromReported(b) ==
    QMul(Q(b - TotalRevenue(products), TotalRevenue(products)), QInt(100))

\* C17 (as stated): with revenue above 0, the reported breakeven_revenue is
\* round(fixed_costs / ((revenue - variable_cost) / revenue), 2) and the
\* reported required_increase is round(((breakeven_revenue - revenue) /
\* revenue) * 100, 2) with the reported, already rounded breakeven_revenue:
\* recomputing it from the reported fields gives the reported value.
C17_AsStated ==
    (Returned /\ TotalRevenue(products) > 0) =>
        /\ NearestHundredth(results.breakeven.breakeven_revenue, ExactBreakevenRevenue)
        /\ NearestHundredth(results.breakeven.required_increase,
                            IncreaseFromReported(results.breakeven.breakeven_revenue))

\* C17 (amended): with revenue above 0, the reported breakeven_revenue is
\* round(fixed_costs / ((revenue - variable_cost) / revenue), 2) and the
\* reported required_increase is round(((b - revenue) / revenue) * 100, 2)
\* with b the unrounded fixed_costs / ((revenue - variable_cost) / revenue).
C17_RequiredIncreaseUnrounded ==
    (Returned /\ TotalRevenue(products) > 0) =>
        /\ NearestHundredth(results.breakeven.breakeven_revenue, ExactBreakevenRevenue)
        /\ NearestHundredth(results.breakeven.required_increase, ExactRequiredIncrease)

\* The two ways of computing the required increase differ here.
C17_Witness ==
    /\ Returned
    /\ TotalRevenue(products) > 0
    /\ NearestHundredth(results.breakeven.required_increase, ExactRequiredIncrease)
    /\ ~NearestHundredth(results.breakeven.required_increase,
                         IncreaseFromReported(results.breakeven.breakeven_revenue))


\* C18: required_increase is negative only for a profitable input: whenever
\* calculate_all reports a required_increase below 0 the net profit is above
\* 0, and whenever the net profit is below 0 the required_increase is 0 or
\* more, for inputs with a negative margin too.
C18_NegativeOnlyWhenProfitable ==
    Returned =>
        /\ results.breakeven.required_increase < 0 => results.monthly_net_profit > 0
        /\ results.monthly_net_profit < 0 => results.breakeven.required_increase >= 0


\* C19: calculate_daily_targets returns one entry for each product, in the
\* order of the products, with current_daily the daily_volume, target_daily
\* floor(current_daily * (1 + required_increase / 100)) and increase_needed
\* target_daily - current_daily, whatever the sign of required_increase,
\* also below -100 where the floor is not the truncation toward zero.
C19_DailyTargetsFloor ==
    Returned =>
        LET targets == results.daily_targets
            required_increase == results.breakeven.required_increase
        IN /\ Len(targets) = Len(products)
           /\ \A i \in 1..Len(products) :
                 /\ targets[i].product_name = products[i].name
                 /\ targets[i].current_daily = products[i].daily_volume
                 /\ targets[i].target_daily
                       = (products[i].daily_volume * (10000 + required_increase)) \div 10000
                 /\ targets[i].increase_needed
                       = targets[i].target_daily - targets[i].current_daily


IsOtherWarning(w) == RuleOf(w) # 5

\* C20: the daily targets of one run all carry the same increase_percentage,
\* the project-wide required_increase rounded to 1 decimal place; so the
\* stretch rule fires for every product or for none, and what it adds to the
\* raw score is 0 or 10 times the number of products.
C20_UniformIncreasePercentage ==
    /\ Returned =>
          LET targets == results.daily_targets
              required_increase == results.breakeven.required_increase
          IN \A i \in 1..Len(targets) :
                /\ targets[i].increase_percentage = targets[1].increase_percentage
                /\ targets[i].increase_percentage % 10 = 0
                /\ 2 * Abs(targets[i].increase_percentage - required_increase) <= 10
    /\ pc = "done" =>
          LET ws == risk_analysis.warnings
              stretched == StretchWarnings(ws)
          IN /\ stretched \in {0, Len(products)}
             /\ risk_score - SumOfPoints(SelectSeq(ws, IsOtherWarning))
                   \in {0, 10 * Len(products)}
             /\ risk_score - SumOfPoints(SelectSeq(ws, IsOtherWarning)) = 10 * stretched
             /\ Len(products) > 0 =>
                   (stretched = Len(products)
                       <=> results.daily_targets[1].increase_percentage > 8000)

C20_Witness ==
    /\ pc = "done"
    /\ Len(products) = 3
    /\ products[1] # products[2]
    /\ results.daily_targets[1].increase_percentage > 8000
    /\ results.daily_targets[3].increase_percentage
          = results.daily_targets[1].increase_percentage
    /\ StretchWarnings(risk_analysis.warnings) = 3


-----------------------------------------------------------------------------
(* The break-even dict, the sentinel and the composed pipeline *)

\* C21: every break-even dict the calculator returns, the one for zero
\* revenue included, has the keys current_revenue and revenue_gap, and
\* revenue_gap is round(breakeven_revenue - current_revenue, 2); for zero
\* revenue both are 0.
C21_BreakevenKeys ==
    Returned =>
        LET breakeven == results.breakeven
        IN /\ {"current_revenue", "revenue_gap"} \subseteq DOMAIN breakeven
           /\ NearestHundredth(breakeven.revenue_gap,
                               Dec(breakeven.breakeven_revenue - breakeven.current_revenue))
           /\ TotalRevenue(products) = 0 =>
                 /\ breakeven.current_revenue = 0
                 /\ breakeven.revenue_gap = 0


-----------------------------------------------------------------------------
(* Calling again: the same instances a second time, or fresh ones *)

MaxCalls == 2

Outcome == [returned |-> TRUE, results |-> results, raised |-> raised,
            risk_analysis |-> risk_analysis]

InitRepeat ==
    /\ initial_investment \in {10000000}
    /\ monthly_fixed_costs \in FixedCostValues
    /\ emergency_fund \in {2950000}
    /\ products \in SeqsUpTo(ProductCatalog, MaxProducts)
    /\ results = NoResults
    /\ raised = ""
    /\ pc = "calculate"
    /\ AnalyzerLocalsInit
    /\ SessionInit
    /\ ServiceAbsent

\* calculator.calculate_all() once more on the same calculator
CalculateAgain ==
    /\ pc \in {"done", "raised"}
    /\ calls < MaxCalls
    /\ previous' = Outcome
    /\ calls' = calls + 1
    /\ raised' = ""
    /\ pc' = "calculate"
    /\ UNCHANGED <<initial_investment, monthly_fixed_costs, emergency_fund, products,
                   results, risk_score, warnings, level, emergency_months, idx,
                   risk_analysis>>
    /\ UNCHANGED service

\* risk_analyzer.analyze() once more on the same analyzer
AnalyzeAgain ==
    /\ pc = "done"
    /\ calls < MaxCalls
    /\ previous' = Outcome
    /\ calls' = calls + 1
    /\ pc' = "analyze"
    /\ UNCHANGED <<inputs, risk_score, warnings, level, emergency_months, idx,
                   risk_analysis>>
    /\ UNCHANGED service

\* a new FeasibilityCalculator and a new RiskAnalyzer from the same inputs
FreshInstances ==
    /\ pc \in {"done", "raised"}
    /\ calls < MaxCalls
    /\ previous' = Outcome
    /\ calls' = calls + 1
    /\ results' = NoResults
    /\ raised' = ""
    /\ risk_score' = 0
    /\ warnings' = <<>>
    /\ level' = "low"
    /\ emergency_months' = QInt(0)
    /\ idx' = 1
    /\ risk_analysis' = NoAnalysis
    /\ pc' = "calculate"
    /\ UNCHANGED <<initial_investment, monthly_fixed_costs, emergency_fund, products>>
    /\ UNCHANGED service

NextRepeat == CalculateAll \/ Analyze \/ CalculateAgain \/ AnalyzeAgain \/ FreshInstances

SpecRepeat == InitRepeat /\ [][NextRepeat]_vars

\* C22: the calculator and the analyzer are deterministic and keep no state:
\* a second call of calculate_all or of analyze on the same instance, or a
\* call on fresh instances built from the same inputs, after any earlier
\* calls, gives what the call before gave (the same exception if it raised).
C22_SameResultAgain ==
    (calls > 1 /\ pc # "calculate") =>
        /\ pc = "raised" => (previous.raised # "" /\ raised = previous.raised)
        /\ pc # "raised" => (previous.raised = "" /\ results = previous.results)
        /\ pc = "done" => risk_analysis = previous.risk_analysis

C22_Witness ==
    /\ calls = MaxCalls
    /\ pc = "done"
    /\ Len(products) = 2
    /\ risk_analysis.risk_score > 0
    /\ Len(risk_analysis.warnings) > 2
    /\ risk_analysis = previous.risk_analysis


AnalyzerPositions == {"analyze", "payback", "sales_gap", "margin", "emergency", "targets"}

\* C23: no operation of the calculator changes a field of its products, its
\* initial_investment or its monthly_fixed_costs, and analyze() leaves the
\* result it was given, breakeven and daily_targets included, as it was.
C23_InputsUntouched ==
    [][/\ pc = "calculate" =>
             /\ products' = products
             /\ initial_investment' = initial_investment
             /\ monthly_fixed_costs' = monthly_fixed_costs
       /\ pc \in AnalyzerPositions =>
             /\ results' = results
             /\ results'.breakeven = results.breakeven
             /\ results'.daily_targets = results.daily_targets
             /\ products' = products
             /\ initial_investment' = initial_investment
             /\ emergency_fund' = emergency_fund]_vars

C23_Witness ==
    /\ pc = "done"
    /\ Len(products) = 3
    /\ Len(results.daily_targets) = 3
    /\ StretchWarnings(risk_analysis.warnings) = 3
    /\ results = calculate_all(initial_investment, monthly_fixed_costs, products)


\* C28: the sentinel is unambiguous: for every valid input breakeven_months
\* is 999 if and only if the revenue is 0 or the monthly net profit is 0 or
\* below; an input with a positive net profit never gives 999, not even when
\* floor(initial_investment / net_profit) is 999.
C28_SentinelUnambiguous ==
    Returned =>
        LET profit == 10 * TotalRevenue(products) - 10 * TotalVariableCost(products)
                        - monthly_fixed_costs
        IN /\ results.breakeven.breakeven_months = 999
                 <=> (TotalRevenue(products) = 0 \/ profit <= 0)
           /\ results.monthly_net_profit > 0 => results.breakeven.breakeven_months # 999


\* C29: in the pipeline (analyze() on what calculate_all returned for a valid
\* input) a sales-gap warning of any tier (required_increase above 25) comes
\* only with the critical payback warning (breakeven_months = 999, +40); a
\* positive net profit never comes with a sales-gap warning or a stretch
\* warning.
C29_SalesGapOnlyWithoutPayback ==
    pc = "done" =>
        LET ws == risk_analysis.warnings
            profit == 10 * TotalRevenue(products) - 10 * TotalVariableCost(products)
                        - monthly_fixed_costs
            gap == WarningsOfRule(ws, 2) # {}
        IN /\ gap <=> results.breakeven.required_increase > 2500
           /\ gap =>
                 /\ results.breakeven.breakeven_months = 999
                 /\ RuleOf(ws[1]) = 1
                 /\ ws[1].type = "critical"
                 /\ PointsOf(ws[1]) = 40
           /\ (profit > 0 \/ results.monthly_net_profit > 0) =>
                 /\ ~gap
                 /\ WarningsOfRule(ws, 5) = {}

C29_Witness ==
    /\ pc = "done"
    /\ Len(products) = 2
    /\ WarningsOfRule(risk_analysis.warnings, 2) # {}
    /\ WarningsOfRule(risk_analysis.warnings, 5) # {}
    /\ results.monthly_net_profit < 0
    /\ results.breakeven.breakeven_months = 999


-----------------------------------------------------------------------------
(* The emergency-fund warning and the reported coverage *)

EmergencyWarned == WarningsOfRule(risk_analysis.warnings, 4) # {}

\* C30 (as stated): the emergency-fund warning and the reported coverage
\* agree: when analyze() adds the +15 emergency-fund warning the reported
\* emergency_fund_months is below 3, and when the reported
\* emergency_fund_months is 3 or more there is no emergency-fund warning.
C30_AsStated ==
    pc = "done" =>
        /\ EmergencyWarned => risk_analysis.emergency_fund_months < 30
        /\ risk_analysis.emergency_fund_months >= 30 => ~EmergencyWarned

\* C30 (amended): when analyze() adds the +15 emergency-fund warning the
\* unrounded coverage is below 3 and the reported emergency_fund_months, the
\* coverage rounded to 1 decimal place, is at most 3.0; when the reported
\* value is above 3.0 there is no emergency-fund warning, and without a
\* warning it is at least 3.0.
C30_WarningOnUnroundedCoverage ==
    pc = "done" =>
        LET fixed == results.monthly_fixed_cost
            tenths == risk_analysis.emergency_fund_months
        IN /\ IF fixed > 0
              THEN 2 * Abs(10 * emergency_fund - tenths * fixed) <= fixed
              ELSE tenths = 0
           /\ EmergencyWarned <=> (fixed = 0 \/ emergency_fund < 3 * fixed)
           /\ EmergencyWarned => tenths <= 30
           /\ tenths > 30 => ~EmergencyWarned
           /\ ~EmergencyWarned => tenths >= 30

\* A coverage of 2.95 months: warned, and reported as 3.0.
C30_Witness ==
    /\ pc = "done"
    /\ emergency_fund = 2950000
    /\ results.monthly_fixed_cost = 1000000
    /\ EmergencyWarned
    /\ risk_analysis.emergency_fund_months = 30


-----------------------------------------------------------------------------
(* The endpoints (app/api): requests served one after another *)

\* What a request to calculate may carry (thousandths).
CalculationParams ==
    {[initial_investment |-> 10000000, monthly_fixed_costs |-> 1000000,
      emergency_fund |-> 2950000],
     [initial_investment |-> 120000000, monthly_fixed_costs |-> 5000000,
      emergency_fund |-> 0]}

\* What a request to add a product may carry.
ProductRequests == {Product("A", 1000, 2000, 10, 26), Product("B", 2000, 2000, 10, 26)}

UserIds == {u.id : u \in db.users}

\* db.query(BusinessProject).filter(id == project_id, user_id == current_user.id)
OwnedProjects(user, project_id) ==
    {p \in db.projects : p.id = project_id /\ p.user_id = user}

ProductsOf(project_id) == {p \in db.products : p.project_id = project_id}

CalculationsOf(project_id) == {c \in db.calculations : c.project_id = project_id}

\* The sequences that hold each element of the set S once: the rows of a
\* query without ORDER BY come in an order the database chooses.
RowOrders(S) ==
    {q \in [1..Cardinality(S) -> S] : \A i, j \in 1..Cardinality(S) : q[i] = q[j] => i = j}

Reply(op, user, target, status, body) ==
    [sent |-> TRUE, op |-> op, user |-> user, target |-> target, status |-> status,
     body |-> body]

\* The locals of calculate_project_feasibility, while no request is served.
HandlerIdle ==
    /\ initial_investment = 0
    /\ monthly_fixed_costs = 0
    /\ emergency_fund = 0
    /\ products = <<>>
    /\ results = NoResults
    /\ raised = ""
    /\ AnalyzerLocalsInit

handler == <<initial_investment, monthly_fixed_costs, emergency_fund, products, results,
             raised, risk_score, warnings, level, emergency_months, idx, risk_analysis>>

InitApi ==
    /\ pc = "idle"
    /\ HandlerIdle
    /\ SessionInit
    /\ ServiceInit

\* auth.register_user: an address (1..MaxUsers) registers once
register_user(email) ==
    /\ pc = "idle"
    /\ IF \E u \in db.users : u.email = email
       THEN /\ response' = Reply("register", 0, email, 400, <<>>)
            /\ UNCHANGED db
       ELSE LET id == db.last_id.users + 1
            IN /\ db' = [db EXCEPT !.users = @ \cup {[id |-> id, email |-> email]},
                                   !.last_id.users = id]
               /\ response' = Reply("register", 0, email, 201, id)
    /\ UNCHANGED <<handler, pc, session, templates, request>>

\* projects.create_project
create_project(user) ==
    /\ pc = "idle"
    /\ db.last_id.projects < MaxProjects
    /\ LET id == db.last_id.projects + 1
       IN /\ db' = [db EXCEPT !.projects = @ \cup {[id |-> id, user_id |-> user,
                                                    name |-> "project"]},
                              !.last_id.projects = id]
          /\ response' = Reply("create_project", user, id, 201, id)
    /\ UNCHANGED <<handler, pc, session, templates, request>>

\* db.delete(project) without the cascade of the relationships and of the
\* foreign keys.
delete_project_NoCascade(user, project_id) ==
    /\ pc = "idle"
    /\ IF OwnedProjects(user, project_id) = {}
       THEN /\ response' = Reply("delete_project", user, project_id, 404, <<>>)
            /\ UNCHANGED db
       ELSE /\ db' = [db EXCEPT !.projects = @ \ OwnedProjects(user, project_id)]
            /\ response' = Reply("delete_project", user, project_id, 204, <<>>)
    /\ UNCHANGED <<handler, pc, session, templates, request>>

\* projects.delete_project: db.delete(project) takes the project's products
\* and calculations along (cascade="all, delete-orphan")
delete_project(user, project_id) ==
    /\ pc = "idle"
    /\ IF OwnedProjects(user, project_id) = {}
       THEN /\ response' = Reply("delete_project", user, project_id, 404, <<>>)
            /\ UNCHANGED db
       ELSE /\ db' = [db EXCEPT !.projects = @ \ OwnedProjects(user, project_id),
                                !.products = @ \ ProductsOf(project_id),
                                !.calculations = @ \ CalculationsOf(project_id)]
            /\ response' = Reply("delete_project", user, project_id, 204, <<>>)
    /\ UNCHANGED <<handler, pc, session, templates, request>>

\* projects.create_product
create_product(user, project_id, product) ==
    /\ pc = "idle"
    /\ db.last_id.products < MaxRows
    /\ IF OwnedProjects(user, project_id) = {}
       THEN /\ response' = Reply("create_product", user, project_id, 404, <<>>)
            /\ UNCHANGED db
       ELSE LET id == db.last_id.products + 1
            IN /\ db' = [db EXCEPT !.products = @ \cup {[id |-> id,
                                                         project_id |-> project_id,
                                                         product |-> product]},
                                   !.last_id.products = id]
               /\ response' = Reply("create_product", user, project_id, 201, id)
    /\ UNCHANGED <<handler, pc, session, templates, request>>

\* projects.delete_product
delete_product(user, product_id) ==
    /\ pc = "idle"
    /\ LET found == {p \in db.products : p.id = product_id}
       IN IF found = {}
          THEN /\ response' = Reply("delete_product", user, product_id, 404, <<>>)
               /\ UNCHANGED db
          ELSE IF \A p \in found : OwnedProjects(user, p.project_id) = {}
          THEN /\ response' = Reply("delete_product", user, product_id, 403, <<>>)
               /\ UNCHANGED db
          ELSE /\ db' = [db EXCEPT !.products = @ \ found]
               /\ response' = Reply("delete_product", user, product_id, 204, <<>>)
    /\ UNCHANGED <<handler, pc, session, templates, request>>

\* calculate_project_feasibility that builds the calculator from whatever
\* the products query returns, without the check of lines 64-68.
calculate_project_feasibility_Unchecked(user, project_id, params) ==
    /\ pc = "idle"
    /\ db.last_id.calculations < MaxCalculations
    /\ IF OwnedProjects(user, project_id) = {}
       THEN /\ response' = Reply("calculate", user, project_id, 404, <<>>)
            /\ UNCHANGED <<handler, pc, request>>
       ELSE /\ \E rows \in RowOrders(ProductsOf(project_id)) :
                  products' = [i \in 1..Len(rows) |-> rows[i].product]
            /\ initial_investment' = params.initial_investment
            /\ monthly_fixed_costs' = params.monthly_fixed_costs
            /\ emergency_fund' = params.emergency_fund
            /\ request' = [pending |-> TRUE, user |-> user, project_id |-> project_id]
            /\ pc' = "calculate"
            /\ response' = NoResponse
            /\ UNCHANGED <<results, raised, risk_score, warnings, level,
                           emergency_months, idx, risk_analysis>>
    /\ UNCHANGED <<db, session, templates>>

\* calculations.calculate_project_feasibility, lines 49-77: the checks, and
\* the calculator built from the rows of the project's products
calculate_project_feasibility(user, project_id, params) ==
    /\ pc = "idle"
    /\ db.last_id.calculations < MaxCalculations
    /\ IF OwnedProjects(user, project_id) = {}
       THEN /\ response' = Reply("calculate", user, project_id, 404, <<>>)
            /\ UNCHANGED <<handler, pc, request>>
       ELSE IF ProductsOf(project_id) = {}
       THEN /\ response' = Reply("calculate", user, project_id, 400, <<>>)
            /\ UNCHANGED <<handler, pc, request>>
       ELSE /\ \E rows \in RowOrders(ProductsOf(project_id)) :
                  products' = [i \in 1..Len(rows) |-> rows[i].product]
            /\ initial_investment' = params.initial_investment
            /\ monthly_fixed_costs' = params.monthly_fixed_costs
            /\ emergency_fund' = params.emergency_fund
            /\ request' = [pending |-> TRUE, user |-> user, project_id |-> project_id]
            /\ pc' = "calculate"
            /\ response' = NoResponse
            /\ UNCHANGED <<results, raised, risk_score, warnings, level,
                           emergency_months, idx, risk_analysis>>
    /\ UNCHANGED <<db, session, templates>>

\* The handler's locals go with its return.
HandlerReturns ==
    /\ initial_investment' = 0
    /\ monthly_fixed_costs' = 0
    /\ emergency_fund' = 0
    /\ products' = <<>>
    /\ results' = NoResults
    /\ raised' = ""
    /\ risk_score' = 0
    /\ warnings' = <<>>
    /\ level' = "low"
    /\ emergency_months' = QInt(0)
    /\ idx' = 1
    /\ risk_analysis' = NoAnalysis
    /\ request' = NoRequest
    /\ pc' = "idle"

\* A percentage (hundredths) that a Numeric(5, 2) column does not hold: the
\* INSERT of the row fails on 1000.00 and above.
numeric_5_2_overflows(h) == Abs(h) >= 100000

\* calculate_project_feasibility, lines 88-133: the Calculation row is
\* written and final_results returned; when the INSERT fails the exception
\* of db.commit() leaves the handler and no row is written
save_calculation ==
    /\ pc = "done"
    /\ request.pending
    /\ IF \/ numeric_5_2_overflows(results.gross_margin)
          \/ numeric_5_2_overflows(RoundScaled(results.net_margin, 100))
          \/ numeric_5_2_overflows(results.breakeven.required_increase)
       THEN /\ response' = Reply("calculate", request.user, request.project_id, 500,
                                 "DataError")
            /\ UNCHANGED db
       ELSE LET id == db.last_id.calculations + 1
                body == [breakeven_months |-> results.breakeven.breakeven_months,
                         risk_score |-> risk_analysis.risk_score,
                         risk_level |-> risk_analysis.risk_level]
            IN /\ db' = [db EXCEPT !.calculations = @ \cup
                                      {[id |-> id, project_id |-> request.project_id,
                                        breakeven_months |->
                                            results.breakeven.breakeven_months,
                                        risk_score |-> risk_analysis.risk_score,
                                        risk_level |-> risk_analysis.risk_level]},
                                   !.last_id.calculations = id]
               /\ response' = Reply("calculate", request.user, request.project_id, 200,
                                    body)
    /\ HandlerReturns
    /\ UNCHANGED <<session, templates>>

\* calculate_all raised: the exception leaves the handler, nothing is written
calculation_failed ==
    /\ pc = "raised"
    /\ request.pending
    /\ response' = Reply("calculate", request.user, request.project_id, 500, raised)
    /\ HandlerReturns
    /\ UNCHANGED <<db, session, templates>>

\* calculations.get_calculation_history
get_calculation_history(user, project_id) ==
    /\ pc = "idle"
    /\ response' = IF OwnedProjects(user, project_id) = {}
                   THEN Reply("history", user, project_id, 404, <<>>)
                   ELSE Reply("history", user, project_id, 200, CalculationsOf(project_id))
    /\ UNCHANGED <<handler, pc, session, db, templates, request>>

\* The outcome of the two queries the endpoints of one calculation start
\* with: 404 without the row, 403 when its project is not the user's.
calculation_access_ProjectExists(user, calculation_id) ==
    LET found == {c \in db.calculations : c.id = calculation_id}
    IN IF found = {} THEN 404
       ELSE IF \A c \in found : \A u \in UserIds : OwnedProjects(u, c.project_id) = {}
       THEN 403
       ELSE 200

calculation_access(user, calculation_id) ==
    LET found == {c \in db.calculations : c.id = calculation_id}
    IN IF found = {} THEN 404
       ELSE IF \A c \in found : OwnedProjects(user, c.project_id) = {} THEN 403
       ELSE 200

\* calculations.get_calculation_detail
get_calculation_detail(user, calculation_id) ==
    /\ pc = "idle"
    /\ LET status == calculation_access(user, calculation_id)
       IN response' = Reply("detail", user, calculation_id, status,
                            IF status = 200
                            THEN {c \in db.calculations : c.id = calculation_id}
                            ELSE <<>>)
    /\ UNCHANGED <<handler, pc, session, db, templates, request>>

\* calculations.delete_calculation
delete_calculation(user, calculation_id) ==
    /\ pc = "idle"
    /\ LET status == calculation_access(user, calculation_id)
       IN /\ response' = Reply("delete_calculation", user, calculation_id, status, <<>>)
          /\ db' = IF status = 200
                   THEN [db EXCEPT !.calculations =
                                      {c \in @ : c.id # calculation_id}]
                   ELSE db
    /\ UNCHANGED <<handler, pc, session, templates, request>>

\* calculations.export_calculation_pdf, up to the report being built
export_calculation_pdf(user, calculation_id) ==
    /\ pc = "idle"
    /\ response' = Reply("export_pdf", user, calculation_id,
                         calculation_access(user, calculation_id), <<>>)
    /\ UNCHANGED <<handler, pc, session, db, templates, request>>

RegisterRequest == \E email \in 1..MaxUsers : register_user(email)

ProjectRequest ==
    \E user \in UserIds :
        \/ create_project(user)
        \/ \E project_id \in 1..MaxProjects : delete_project(user, project_id)

ProductRequest ==
    \E user \in UserIds :
        \/ \E project_id \in 1..MaxProjects, product \in ProductRequests :
               create_product(user, project_id, product)
        \/ \E product_id \in 1..MaxRows : delete_product(user, product_id)

CalculateRequest ==
    \E user \in UserIds, project_id \in 1..MaxProjects, params \in CalculationParams :
        calculate_project_feasibility(user, project_id, params)

CalculationRequest ==
    \E user \in UserIds :
        \/ \E project_id \in 1..MaxProjects : get_calculation_history(user, project_id)
        \/ \E calculation_id \in 1..MaxCalculations :
               \/ get_calculation_detail(user, calculation_id)
               \/ delete_calculation(user, calculation_id)
               \/ export_calculation_pdf(user, calculation_id)

NextApi ==
    \/ RegisterRequest
    \/ ProjectRequest
    \/ ProductRequest
    \/ CalculateRequest
    \/ CalculateAll
    \/ Analyze
    \/ save_calculation
    \/ calculation_failed
    \/ CalculationRequest

SpecApi == InitApi /\ [][NextApi]_vars


-----------------------------------------------------------------------------
(* The template endpoints (app/api/templates.py) *)

\* The template ids requests name: two of the catalog and one that is not
\* in it.
RequestedTemplates == {"cafe", "gym", "pharmacy"}

\* A value bound to a Numeric(10, 2) column: the row holds hundredths,
\* whichever type the value came as.
to_numeric(x) == x.value

\* templates.list_templates
list_templates ==
    /\ pc = "idle"
    /\ response' = Reply("list_templates", 0, "", 200,
                         [template_id \in DOMAIN templates |->
                             [name |-> templates[template_id].name,
                              industry |-> templates[template_id].industry,
                              product_count |-> Len(templates[template_id].products),
                              estimated_initial_investment |->
                                  to_float(templates[template_id].estimated_initial_investment),
                              estimated_monthly_fixed_costs |->
                                  to_float(templates[template_id].estimated_monthly_fixed_costs)]])
    /\ UNCHANGED <<handler, pc, session, db, templates, request>>

\* templates.get_template_detail: the copy is shallow, so the two estimates
\* are replaced in the copy, while the product dicts converted in the loop
\* are the ones BUSINESS_TEMPLATES holds
get_template_detail(template_id) ==
    /\ pc = "idle"
    /\ IF template_id \notin DOMAIN templates
       THEN /\ response' = Reply("template_detail", 0, template_id, 404, <<>>)
            /\ UNCHANGED templates
       ELSE LET template == templates[template_id]
                converted == [i \in DOMAIN template.products |->
                                 [template.products[i] EXCEPT
                                     !.cost_per_unit = to_float(@),
                                     !.selling_price = to_float(@)]]
            IN /\ templates' = [templates EXCEPT ![template_id].products = converted]
               /\ response' = Reply("template_detail", 0, template_id, 200,
                                    [template EXCEPT
                                        !.estimated_initial_investment = to_float(@),
                                        !.estimated_monthly_fixed_costs = to_float(@),
                                        !.products = converted])
    /\ UNCHANGED <<handler, pc, session, db, request>>

\* templates.list_industries
list_industries ==
    /\ pc = "idle"
    /\ response' = Reply("list_industries", 0, "", 200,
                         {templates[template_id].industry : template_id \in DOMAIN templates})
    /\ UNCHANGED <<handler, pc, session, db, templates, request>>

\* templates.create_project_from_template
create_project_from_template(user, template_id) ==
    /\ pc = "idle"
    /\ db.last_id.projects < MaxProjects
    /\ IF template_id \notin DOMAIN templates
       THEN /\ response' = Reply("create_from_template", user, template_id, 404, <<>>)
            /\ UNCHANGED db
       ELSE LET template == templates[template_id]
                id == db.last_id.projects + 1
                rows == {[id |-> db.last_id.products + i,
                          project_id |-> id,
                          product |-> Product(template.products[i].name,
                                              to_numeric(template.products[i].cost_per_unit),
                                              to_numeric(template.products[i].selling_price),
                                              template.products[i].daily_volume,
                                              template.products[i].working_days_per_month)] :
                         i \in DOMAIN template.products}
            IN /\ db' = [db EXCEPT !.projects = @ \cup {[id |-> id, user_id |-> user,
                                                         name |-> template.name]},
                                   !.products = @ \cup rows,
                                   !.last_id.projects = id,
                                   !.last_id.products = @ + Len(template.products)]
               /\ response' = Reply("create_from_template", user, template_id, 200, id)
    /\ UNCHANGED <<handler, pc, session, templates, request>>

TemplateRequest ==
    \/ list_templates
    \/ list_industries
    \/ \E template_id \in RequestedTemplates : get_template_detail(template_id)
    \/ \E user \in UserIds, template_id \in RequestedTemplates :
           create_project_from_template(user, template_id)

NextTemplates == RegisterRequest \/ TemplateRequest

SpecTemplates == InitApi /\ [][NextTemplates]_vars

\* The rows the products table holds for a project made from the template.
RowsFrom(template, project) ==
    {[name |-> template.products[i].name,
      cost_per_unit |-> template.products[i].cost_per_unit.value,
      selling_price |-> template.products[i].selling_price.value,
      daily_volume |-> template.products[i].daily_volume,
      working_days_per_month |-> template.products[i].working_days_per_month] :
     i \in DOMAIN template.products}

\* C27: the business-template catalog is never mutated after startup: after
\* any sequence of list-templates, get-template-detail, list-industries and
\* create-project-from-template requests BUSINESS_TEMPLATES, with every
\* product's cost_per_unit and selling_price in value and in type, equals its
\* initial value, and a project created from a template has the products of
\* the initial template, whether or not its detail was requested before.
C27_CatalogNeverMutated ==
    /\ templates = BUSINESS_TEMPLATES
    /\ \A project \in db.projects :
           \A template_id \in TemplateIds :
               project.name = BUSINESS_TEMPLATES[template_id].name =>
                   {row.product : row \in ProductsOf(project.id)}
                       = RowsFrom(BUSINESS_TEMPLATES[template_id], project)


-----------------------------------------------------------------------------
(* Properties of the endpoints, checked under SpecApi *)

\* A step that ends a request: its response is the new value of response.
Answered == response' # response /\ response'.sent

OwnsProject(user, project_id) ==
    \E p \in db.projects : p.id = project_id /\ p.user_id = user

OwnsCalculation(user, calculation_id) ==
    \E c \in db.calculations : c.id = calculation_id /\ OwnsProject(user, c.project_id)

\* C24: after any sequence of register, create, calculate and delete
\* requests by several users, a request to read a calculation's detail, to
\* export it as PDF or to delete it succeeds only if the calculation's
\* project is owned by the requesting user; the request of any other user is
\* answered 403 or 404 and leaves the stored calculations as they are.
\* Calculate and history succeed only for projects the requester owns.
C24_OnlyTheOwner ==
    [][Answered =>
        /\ response'.op \in {"detail", "export_pdf", "delete_calculation"} =>
               /\ response'.status = 200 =>
                      OwnsCalculation(response'.user, response'.target)
               /\ ~OwnsCalculation(response'.user, response'.target) =>
                      /\ response'.status \in {403, 404}
                      /\ db'.calculations = db.calculations
        /\ response'.op \in {"calculate", "history"} =>
               /\ response'.status = 200 => OwnsProject(response'.user, response'.target)
               /\ ~OwnsProject(response'.user, response'.target) =>
                      /\ response'.status = 404
                      /\ db'.calculations = db.calculations]_vars

\* The second user was refused the deletion of a calculation of the first,
\* which is still stored.
C24_Witness ==
    /\ response.sent
    /\ response.op = "delete_calculation"
    /\ response.status = 403
    /\ \E c \in db.calculations : c.id = response.target
    /\ Cardinality(db.users) = 2

\* C25: the calculate endpoint never invokes the core with an empty product
\* list: for an owned project with zero products it fails with 400 and
\* persists no Calculation; a Calculation is persisted only after the
\* calculator and then the risk analyzer have completed, and its stored
\* risk_score, risk_level and breakeven_months equal those of the response.
C25_CalculateEndpoint ==
    [][/\ pc' # "idle" => products' # <<>>
       /\ (/\ Answered
           /\ response'.op = "calculate"
           /\ OwnsProject(response'.user, response'.target)
           /\ ProductsOf(response'.target) = {}) =>
              /\ response'.status = 400
              /\ db' = db
              /\ pc = "idle" /\ pc' = "idle"
       /\ \A row \in db'.calculations \ db.calculations :
              /\ pc = "done"
              /\ results # NoResults
              /\ risk_analysis # NoAnalysis
              /\ Answered
              /\ response'.op = "calculate"
              /\ response'.status = 200
              /\ row.project_id = response'.target
              /\ row.risk_score = response'.body.risk_score
              /\ row.risk_level = response'.body.risk_level
              /\ row.breakeven_months = response'.body.breakeven_months
              /\ row.risk_score = risk_analysis.risk_score
              /\ row.risk_level = risk_analysis.risk_level
              /\ row.breakeven_months = results.breakeven.breakeven_months]_vars

\* A project without products was just refused with 400, while another
\* project's calculation is stored.
C25_Witness ==
    /\ response.sent
    /\ response.op = "calculate"
    /\ response.status = 400
    /\ db.calculations # {}

\* C26: deleting a project removes all of its products and calculations:
\* after any sequence of project, product and calculation operations no
\* stored product or calculation refers to a project that no longer exists,
\* and the calculations of a deleted project are no longer retrievable by
\* identifier, then or later.
C26_DeleteProjectCascades ==
    [][/\ \A row \in db'.products \cup db'.calculations :
              \E p \in db'.projects : p.id = row.project_id
       /\ (Answered /\ response'.op = "delete_project" /\ response'.status = 204) =>
              /\ \A p \in db'.projects : p.id # response'.target
              /\ \A row \in db'.products \cup db'.calculations :
                     row.project_id # response'.target
              /\ \A c \in CalculationsOf(response'.target) :
                     ~\E d \in db'.calculations : d.id = c.id
       /\ \A id \in 1..db.last_id.calculations :
              (\A c \in db.calculations : c.id # id) =>
                  (\A c \in db'.calculations : c.id # id)]_vars

\* A project was just deleted, and of the products and calculations the
\* tables were given none is left.
C26_Witness ==
    /\ response.sent
    /\ response.op = "delete_project"
    /\ response.status = 204
    /\ db.last_id.products > 0
    /\ db.last_id.calculations > 0
    /\ db.products = {}
    /\ db.calculations = {}

====
